---- MODULE Spec2Model ----
(***************************************************************************)
(* Model of the per-client transaction processor of tx_processor.          *)
(*                                                                         *)
(* The state is the state owned by one ClientProcessor                     *)
(* (src/src/client_processor.rs): its Balances (src/src/balances.rs), the  *)
(* locked flag, the deposit cache (src/src/db/in_mem.rs) and the map of    *)
(* disputed amounts.  One step of the model is one iteration of the loop   *)
(* of ClientProcessor::crank: a transaction is received and processed to   *)
(* completion, so every state of the model is a quiescent point.           *)
(*                                                                         *)
(* Monetary values are natural numbers (units of 0.0001); Decimal::MAX is  *)
(* scaled down to MaxValue so that overflow is reachable.                  *)
(***************************************************************************)
EXTENDS Integers, FiniteSets, Sequences, TLC

(***************************************************************************)
(* Bounds of the model.                                                    *)
(***************************************************************************)
\* Largest representable monetary value (stands for Decimal::MAX).
MaxValue == 4
\* Largest amount carried by a deposit or a withdrawal.
MaxAmount == 2
\* Transaction ids are 1..MaxId.
MaxId == 2

\* Clients are 1..MaxClient.
MaxClient == 2
\* Largest number of records the input stream yields.
MaxStream == 4
\* Capacity of the channel to a client processor (stands for 1000).
TX_CHANNEL_SIZE == 2
\* Number of values of the in-flight counter (stands for usize::MAX + 1).
UsizeModulus == 16

\* The client served by the modelled ClientProcessor.
Client == 1
Clients == 1..MaxClient

TxIds == 1..MaxId
Amounts == 1..MaxAmount

(***************************************************************************)
(* Option<V>: None is the empty tuple, Some(v) the one-element tuple.      *)
(* Record constructors list their fields in the order in which the field   *)
(* names first occur in this module.                                       *)
(***************************************************************************)
None == <<>>
Some(v) == <<v>>

(***************************************************************************)
(* BalanceUpdater for NonNegative.                                         *)
(***************************************************************************)
new == 0

\* An addition that saturates at the largest value.
add_saturating(x, y) == IF x + y > MaxValue THEN Some(MaxValue) ELSE Some(x + y)

\* Decimal::checked_add: None on overflow.
add(x, y) == IF x + y > MaxValue THEN None ELSE Some(x + y)

\* Mutation of sub: the sign of the difference is not checked.
sub_unchecked_sign(x, y) == IF x - y < 0 - MaxValue THEN None ELSE Some(x - y)

\* Decimal::checked_sub followed by the is_sign_positive filter.
sub(x, y) ==
    LET new_value == IF x - y < 0 - MaxValue THEN None ELSE Some(x - y)
    IN  IF new_value = None THEN None
        ELSE IF new_value[1] >= 0 THEN new_value ELSE None

(***************************************************************************)
(* Balances.  Every operation returns [b, ok]: ok is FALSE for             *)
(* Err(ArithmeticOverflow) and b is the value of *self when the operation  *)
(* returns.  A `?` returns early and keeps the assignments made before it. *)
(***************************************************************************)
Balances_new == [available |-> new, held |-> new, total |-> new]

deposit(b, amount) ==
    LET a1 == add(b.available, amount)
    IN  IF a1 = None THEN [b |-> b, ok |-> FALSE]
        ELSE LET b1 == [b EXCEPT !.available = a1[1]]
                 t1 == add(b1.total, amount)
             IN  IF t1 = None THEN [b |-> b1, ok |-> FALSE]
                 ELSE [b |-> [b1 EXCEPT !.total = t1[1]], ok |-> TRUE]

withdrawal(b, amount) ==
    LET a1 == sub(b.available, amount)
    IN  IF a1 = None THEN [b |-> b, ok |-> FALSE]
        ELSE LET b1 == [b EXCEPT !.available = a1[1]]
                 t1 == sub(b1.total, amount)
             IN  IF t1 = None THEN [b |-> b1, ok |-> FALSE]
                 ELSE [b |-> [b1 EXCEPT !.total = t1[1]], ok |-> TRUE]

dispute(b, amount) ==
    LET h1 == add(b.held, amount)
    IN  IF h1 = None THEN [b |-> b, ok |-> FALSE]
        ELSE LET b1 == [b EXCEPT !.held = h1[1]]
                 a1 == sub(b1.available, amount)
             IN  IF a1 = None THEN [b |-> b1, ok |-> FALSE]
                 ELSE [b |-> [b1 EXCEPT !.available = a1[1]], ok |-> TRUE]

resolve(b, amount) ==
    LET h1 == sub(b.held, amount)
    IN  IF h1 = None THEN [b |-> b, ok |-> FALSE]
        ELSE LET b1 == [b EXCEPT !.held = h1[1]]
                 a1 == add(b1.available, amount)
             IN  IF a1 = None THEN [b |-> b1, ok |-> FALSE]
                 ELSE [b |-> [b1 EXCEPT !.available = a1[1]], ok |-> TRUE]

\* A chargeback that also takes the amount from available.
chargeback_debiting_available(b, amount) ==
    LET h1 == sub(b.held, amount)
    IN  IF h1 = None THEN [b |-> b, ok |-> FALSE]
        ELSE LET b1 == [b EXCEPT !.held = h1[1]]
                 t1 == sub(b1.total, amount)
             IN  IF t1 = None THEN [b |-> b1, ok |-> FALSE]
                 ELSE [b |-> [b1 EXCEPT !.total = t1[1],
                                        !.available = IF @ >= amount THEN @ - amount ELSE 0],
                       ok |-> TRUE]

chargeback(b, amount) ==
    LET h1 == sub(b.held, amount)
    IN  IF h1 = None THEN [b |-> b, ok |-> FALSE]
        ELSE LET b1 == [b EXCEPT !.held = h1[1]]
                 t1 == sub(b1.total, amount)
             IN  IF t1 = None THEN [b |-> b1, ok |-> FALSE]
                 ELSE [b |-> [b1 EXCEPT !.total = t1[1]], ok |-> TRUE]

(***************************************************************************)
(* HashMap<u32, V> as a function whose domain is the set of keys.          *)
(***************************************************************************)
HashMap_new == [i \in {} |-> 0]
HashMap_insert(m, k, v) == [i \in (DOMAIN m) \cup {k} |-> IF i = k THEN v ELSE m[i]]
HashMap_remove(m, k) == [i \in (DOMAIN m) \ {k} |-> m[i]]
contains_key(m, k) == k \in DOMAIN m

(***************************************************************************)
(* AmountCache (the deposit index).                                        *)
(***************************************************************************)
AmountCache_new == HashMap_new

get(txs, id) == IF contains_key(txs, id) THEN Some(txs[id]) ELSE None

\* An insert that reports success for every id.
insert_never_fails(txs, id, amount) ==
    [ok |-> TRUE, txs |-> HashMap_insert(txs, id, amount)]

\* HashMap::insert stores the new amount and returns the previous value;
\* a previous value is reported as Err(AlreadyExists).
insert(txs, id, amount) ==
    [ok |-> ~contains_key(txs, id), txs |-> HashMap_insert(txs, id, amount)]

(***************************************************************************)
(* Transactions.  amount is 0 for the kinds that carry no amount.          *)
(***************************************************************************)
Deposit(c, id, a) == [amount |-> a, kind |-> "Deposit", client |-> c, tx |-> id]
Withdrawal(c, id, a) == [amount |-> a, kind |-> "Withdrawal", client |-> c, tx |-> id]
Dispute(c, id) == [amount |-> 0, kind |-> "Dispute", client |-> c, tx |-> id]
Resolve(c, id) == [amount |-> 0, kind |-> "Resolve", client |-> c, tx |-> id]
Chargeback(c, id) == [amount |-> 0, kind |-> "Chargeback", client |-> c, tx |-> id]

\* The value of `tx` before the first transaction has been received.
NoTx == [amount |-> 0, kind |-> "None", client |-> Client, tx |-> 0]

(***************************************************************************)
(* ClientProcessor.  p is the record of the fields the processor owns.     *)
(* Every process_* returns [p, res]: res is the Ok outcome ("NoAction",    *)
(* "LockAccount") or the error.                                            *)
(***************************************************************************)
ClientProcessor_new ==
    [balances |-> Balances_new, locked |-> FALSE,
     db |-> AmountCache_new, disputed |-> HashMap_new]

OkOutcomes == {"NoAction", "LockAccount"}
Errors == {"InvalidTransaction", "DuplicatedTransaction", "ArithmeticOverflow"}

\* A deposit that restores the balances when the id is a duplicate.
process_Deposit_rolling_back(p, t) ==
    LET r == deposit(p.balances, t.amount)
        p1 == [p EXCEPT !.balances = r.b]
    IN  IF ~r.ok THEN [p |-> p1, res |-> "InvalidTransaction"]
        ELSE LET i == insert(p1.db, t.tx, t.amount)
                 p2 == [p1 EXCEPT !.db = i.txs]
             IN  IF ~i.ok THEN [p |-> [p2 EXCEPT !.balances = p.balances],
                                res |-> "DuplicatedTransaction"]
                 ELSE [p |-> p2, res |-> "NoAction"]

process_Deposit(p, t) ==
    LET r == deposit(p.balances, t.amount)
        p1 == [p EXCEPT !.balances = r.b]
    IN  IF ~r.ok THEN [p |-> p1, res |-> "InvalidTransaction"]
        ELSE LET i == insert(p1.db, t.tx, t.amount)
                 p2 == [p1 EXCEPT !.db = i.txs]
             IN  IF ~i.ok THEN [p |-> p2, res |-> "DuplicatedTransaction"]
                 ELSE [p |-> p2, res |-> "NoAction"]

\* Mutation of process_Withdrawal: a successful withdrawal is recorded in
\* the deposit index.
process_Withdrawal_indexed(p, t) ==
    LET r == withdrawal(p.balances, t.amount)
        p1 == [p EXCEPT !.balances = r.b]
    IN  IF ~r.ok THEN [p |-> p1, res |-> "ArithmeticOverflow"]
        ELSE [p |-> [p1 EXCEPT !.db = HashMap_insert(p1.db, t.tx, t.amount)],
              res |-> "NoAction"]

process_Withdrawal(p, t) ==
    LET r == withdrawal(p.balances, t.amount)
        p1 == [p EXCEPT !.balances = r.b]
    IN  IF ~r.ok THEN [p |-> p1, res |-> "ArithmeticOverflow"]
        ELSE [p |-> p1, res |-> "NoAction"]

\* Mutation of process_Dispute: the already-disputed check is missing.
process_Dispute_no_check(p, t) ==
    LET amount == get(p.db, t.tx)
    IN  IF amount # None
        THEN LET r == dispute(p.balances, amount[1])
                 p1 == [p EXCEPT !.balances = r.b]
             IN  IF ~r.ok THEN [p |-> p1, res |-> "ArithmeticOverflow"]
                 ELSE [p |-> [p1 EXCEPT !.disputed =
                                  HashMap_insert(p1.disputed, t.tx, amount[1])],
                       res |-> "NoAction"]
        ELSE [p |-> p, res |-> "NoAction"]

process_Dispute(p, t) ==
    IF contains_key(p.disputed, t.tx) THEN [p |-> p, res |-> "NoAction"]
    ELSE LET amount == get(p.db, t.tx)
         IN  IF amount # None
             THEN LET r == dispute(p.balances, amount[1])
                      p1 == [p EXCEPT !.balances = r.b]
                  IN  IF ~r.ok THEN [p |-> p1, res |-> "ArithmeticOverflow"]
                      ELSE [p |-> [p1 EXCEPT !.disputed =
                                       HashMap_insert(p1.disputed, t.tx, amount[1])],
                            res |-> "NoAction"]
             ELSE [p |-> p, res |-> "NoAction"]

\* Mutation of process_Resolve: the amount is looked up in the deposit
\* index instead of the disputed map.
process_Resolve_from_db(p, t) ==
    LET amount == get(p.db, t.tx)
    IN  IF amount # None
        THEN LET r == resolve(p.balances, amount[1])
                 p1 == [p EXCEPT !.balances = r.b]
             IN  IF ~r.ok THEN [p |-> p1, res |-> "ArithmeticOverflow"]
                 ELSE [p |-> [p1 EXCEPT !.disputed = HashMap_remove(p1.disputed, t.tx)],
                       res |-> "NoAction"]
        ELSE [p |-> p, res |-> "NoAction"]

process_Resolve(p, t) ==
    LET amount == get(p.disputed, t.tx)
    IN  IF amount # None
        THEN LET r == resolve(p.balances, amount[1])
                 p1 == [p EXCEPT !.balances = r.b]
             IN  IF ~r.ok THEN [p |-> p1, res |-> "ArithmeticOverflow"]
                 ELSE [p |-> [p1 EXCEPT !.disputed = HashMap_remove(p1.disputed, t.tx)],
                       res |-> "NoAction"]
        ELSE [p |-> p, res |-> "NoAction"]

\* Mutation of process_Chargeback: LockAccount is returned on every path.
process_Chargeback_always_lock(p, t) ==
    LET amount == get(p.disputed, t.tx)
    IN  IF amount # None
        THEN LET r == chargeback(p.balances, amount[1])
                 p1 == [p EXCEPT !.balances = r.b]
             IN  IF ~r.ok THEN [p |-> p1, res |-> "LockAccount"]
                 ELSE [p |-> [p1 EXCEPT !.disputed = HashMap_remove(p1.disputed, t.tx)],
                       res |-> "LockAccount"]
        ELSE [p |-> p, res |-> "LockAccount"]

\* A chargeback that leaves the id in the disputed cache.
process_Chargeback_keeping_dispute(p, t) ==
    LET amount == get(p.disputed, t.tx)
    IN  IF amount # None
        THEN LET r == chargeback(p.balances, amount[1])
                 p1 == [p EXCEPT !.balances = r.b]
             IN  IF ~r.ok THEN [p |-> p1, res |-> "ArithmeticOverflow"]
                 ELSE [p |-> p1, res |-> "LockAccount"]
        ELSE [p |-> p, res |-> "NoAction"]

process_Chargeback(p, t) ==
    LET amount == get(p.disputed, t.tx)
    IN  IF amount # None
        THEN LET r == chargeback(p.balances, amount[1])
                 p1 == [p EXCEPT !.balances = r.b]
             IN  IF ~r.ok THEN [p |-> p1, res |-> "ArithmeticOverflow"]
                 ELSE [p |-> [p1 EXCEPT !.disputed = HashMap_remove(p1.disputed, t.tx)],
                       res |-> "LockAccount"]
        ELSE [p |-> p, res |-> "NoAction"]

\* ClientProcessor::process: dispatch on the kind of the payload.
process(p, t) ==
    CASE t.kind = "Deposit" -> process_Deposit(p, t)
      [] t.kind = "Withdrawal" -> process_Withdrawal(p, t)
      [] t.kind = "Dispute" -> process_Dispute(p, t)
      [] t.kind = "Resolve" -> process_Resolve(p, t)
      [] t.kind = "Chargeback" -> process_Chargeback(p, t)

\* Mutation of crank: the locked flag is not consulted.
crank_ignoring_lock(p, t) ==
    LET r == process(p, t)
    IN  [p |-> IF r.res = "LockAccount" THEN [r.p EXCEPT !.locked = TRUE] ELSE r.p,
         res |-> r.res]

\* One iteration of the loop of ClientProcessor::crank on the received
\* transaction t.  res is "Skipped" when the account is locked.  The
\* fetch_sub that ends the iteration acts on the counter owned by the
\* StreamProcessor and touches none of the processor's fields.
crank(p, t) ==
    IF ~p.locked
    THEN LET r == process(p, t)
         IN  [p |-> IF r.res = "LockAccount" THEN [r.p EXCEPT !.locked = TRUE] ELSE r.p,
              res |-> r.res]
    ELSE [p |-> p, res |-> "Skipped"]

\* The ClientState sent when the loop of crank has ended.
ClientState(c, p) == [client |-> c, balances |-> p.balances, locked |-> p.locked]

(***************************************************************************)
(* Input records (src/src/csv.rs).  A stream item is Result<InputRecord,   *)
(* csv_async::Error>: Some(record) or None.  The amount of a record is an  *)
(* Option<Decimal>.                                                        *)
(***************************************************************************)
InputRecord(k, c, id, a) == [amount |-> a, kind |-> k, client |-> c, tx |-> id]

\* A NonZero that accepts zero.
NonZero_try_from_accepting_zero(value) == IF value >= 0 THEN Some(value) ELSE None

\* NonZero::try_from: Some(value) when value > 0.
NonZero_try_from(value) == IF value > 0 THEN Some(value) ELSE None

\* TryFrom<InputRecord> for Transaction: Some(transaction), or None for
\* the four errors.
Transaction_try_from(value) ==
    CASE value.kind \in {"Deposit", "Withdrawal"} ->
            IF value.amount = None THEN None
            ELSE LET amount == NonZero_try_from(value.amount[1])
                 IN  IF amount = None THEN None
                     ELSE Some([amount |-> amount[1], kind |-> value.kind,
                                client |-> value.client, tx |-> value.tx])
      [] OTHER ->
            Some([amount |-> 0, kind |-> value.kind,
                  client |-> value.client, tx |-> value.tx])

\* A routing key that is the same for every transaction.
Transaction_client_constant(t) == 1

\* Transaction::client.
Transaction_client(t) == t.client

(***************************************************************************)
(* The in-flight counter (AtomicUsize) and the channels.                   *)
(***************************************************************************)
\* A send_and_register that does not increment the counter.
fetch_add_missing(n) == n

\* A registration that counts a transaction twice.
fetch_add_twice(n) == (n + 2) % UsizeModulus

fetch_add(n) == (n + 1) % UsizeModulus
\* A crank that does not decrement the counter.
fetch_sub_missing(n) == n

fetch_sub(n) == (n - 1) % UsizeModulus

\* A channel without a bound.
mpsc_can_send_unbounded(q) == TRUE

\* mpsc::Sender::send completes when the queue holds fewer than
\* TX_CHANNEL_SIZE transactions and appends to it.
mpsc_can_send(q) == Len(q) < TX_CHANNEL_SIZE
\* A channel that hands over the newest message first.
mpsc_send_lifo(q, t) == <<t>> \o q

mpsc_send(q, t) == Append(q, t)

\* A recv that yields None as soon as the queue is empty.
mpsc_recv_is_none_when_empty(q, senders_dropped) == q = <<>>

\* mpsc::Receiver::recv yields the head of the queue; it yields None when
\* the queue is empty and every sender has been dropped.
mpsc_recv_is_none(q, senders_dropped) == q = <<>> /\ senders_dropped

\* A sender that is dropped without sending.
oneshot_send_nothing(slot, v) == slot

\* oneshot::Sender::send stores the value for the receiver.
oneshot_send(slot, v) == Some(v)

\* A lookup that never finds the sender of the client.
client_processors_get_never(senders, c) == FALSE

\* HashMap::get on client_processors: is there a sender for the client?
client_processors_get(senders, c) == c \in senders

(***************************************************************************)
(* State.                                                                  *)
(***************************************************************************)
VARIABLES
    balances,           \* ClientProcessor.balances
    locked,             \* ClientProcessor.locked
    db,                 \* ClientProcessor.db (AmountCache.txs)
    disputed,           \* ClientProcessor.disputed
    tx,                 \* the transaction received last by crank
    tx_process_result,  \* the result of processing tx
    prev                \* the processor when tx was received

\* State of StreamProcessor::process and of the tasks it spawns.
VARIABLES
    input,                \* the stream items read so far
    fpc,                  \* where StreamProcessor::process stands
    pending,              \* the transaction send_and_register is sending
    client_processors,    \* the clients that have a sender in the map
    result_receivers,     \* the clients that have a result receiver
    active_transactions,  \* the in-flight counter
    tx_receiver,          \* per client: the queue of its channel
    processors,           \* per client: the fields of its ClientProcessor
    received,             \* per client: the transaction crank is processing
    apc,                  \* per client: where its crank task stands
    result_sender,        \* per client: the oneshot slot of its result
    results,              \* the items the result stream has yielded
    applied,              \* per client: the transactions crank has processed
    spawned,              \* per client: how many tasks have been spawned
    sent_results          \* per client: how many results crank has sent

fabric_vars ==
    <<input, fpc, pending, client_processors, result_receivers,
      active_transactions, tx_receiver, processors, received, apc,
      result_sender, results, applied, spawned, sent_results>>

client_vars == <<balances, locked, db, disputed, tx, tx_process_result, prev>>

\* The conversions of the final ClientState made so far: empty, or the one
\* Result of OutputRecord::try_from (None is the Err).
VARIABLE output_record

\* The functions that are checked on their own: the record given to
\* Transaction::try_from with its Result (empty until converted), and the
\* two operands of BalanceUpdater::add and sub with their results (empty
\* until computed).
VARIABLES
    input_record,
    converted,
    operand_self,
    operand_other,
    add_result,
    sub_result

unit_vars ==
    <<input_record, converted, operand_self, operand_other, add_result, sub_result>>

vars == <<client_vars, fabric_vars, output_record, unit_vars>>

\* The processor as one record.
Self == [balances |-> balances, locked |-> locked, db |-> db, disputed |-> disputed]

ClientInit ==
    /\ balances = ClientProcessor_new.balances
    /\ locked = ClientProcessor_new.locked
    /\ db = ClientProcessor_new.db
    /\ disputed = ClientProcessor_new.disputed
    /\ tx = NoTx
    /\ tx_process_result = "None"
    /\ prev = ClientProcessor_new

\* StreamProcessor::new and the start of process: no record read, no task.
FabricInit ==
    /\ input = <<>>
    /\ fpc = "next"
    /\ pending = NoTx
    /\ client_processors = {}
    /\ result_receivers = {}
    /\ active_transactions = 0
    /\ tx_receiver = [c \in Clients |-> <<>>]
    /\ processors = [c \in Clients |-> ClientProcessor_new]
    /\ received = [c \in Clients |-> NoTx]
    /\ apc = [c \in Clients |-> "unspawned"]
    /\ result_sender = [c \in Clients |-> None]
    /\ results = <<>>
    /\ applied = [c \in Clients |-> <<>>]
    /\ spawned = [c \in Clients |-> 0]
    /\ sent_results = [c \in Clients |-> 0]

\* crank receives t and processes it.
Crank(t) ==
    LET r == crank(Self, t)
    IN  /\ balances' = r.p.balances
        /\ locked' = r.p.locked
        /\ db' = r.p.db
        /\ disputed' = r.p.disputed
        /\ tx' = t
        /\ tx_process_result' = r.res
        /\ prev' = Self
        /\ UNCHANGED <<fabric_vars, output_record, unit_vars>>

\* No record is being converted and no operands are given.
UnitIdle ==
    /\ input_record = InputRecord("Dispute", Client, 0, None)
    /\ converted = <<>>
    /\ operand_self = new
    /\ operand_other = new
    /\ add_result = <<>>
    /\ sub_result = <<>>

Init == ClientInit /\ FabricInit /\ output_record = <<>> /\ UnitIdle

RecvDeposit == \E id \in TxIds, a \in Amounts : Crank(Deposit(Client, id, a))
RecvWithdrawal == \E id \in TxIds, a \in Amounts : Crank(Withdrawal(Client, id, a))
RecvDispute == \E id \in TxIds : Crank(Dispute(Client, id))
RecvResolve == \E id \in TxIds : Crank(Resolve(Client, id))
RecvChargeback == \E id \in TxIds : Crank(Chargeback(Client, id))

Next ==
    \/ RecvDeposit
    \/ RecvWithdrawal
    \/ RecvDispute
    \/ RecvResolve
    \/ RecvChargeback

Spec == Init /\ [][Next]_vars

(***************************************************************************)
(* StreamProcessor::process (src/src/stream_processor.rs) and the crank    *)
(* tasks it spawns.  Every action is one step between two suspension       *)
(* points or two operations on shared state (the channels, the counter).   *)
(***************************************************************************)

\* The records the modelled input stream can yield: a deposit of every
\* client, and for client 1 a deposit without amount, the dispute and the
\* chargeback of its deposit.
StreamRecords ==
    {InputRecord("Deposit", c, 1, Some(1)) : c \in Clients}
    \cup {InputRecord("Deposit", 1, 1, None),
          InputRecord("Dispute", 1, 1, None),
          InputRecord("Chargeback", 1, 1, None)}

\* stream.next() yields one more item.
ReadItem(item) ==
    /\ fpc = "next"
    /\ Len(input) < MaxStream
    /\ input' = Append(input, item)

\* The item is a csv error: continue.
StreamCsvError ==
    /\ ReadItem(None)
    /\ UNCHANGED <<client_vars, output_record, unit_vars, fpc, pending, client_processors, result_receivers,
                   active_transactions, tx_receiver, processors, received, apc,
                   result_sender, results, applied, spawned, sent_results>>

\* A loop that ends at the first record that is not a valid transaction.
StreamInvalidRecord_break ==
    \E record \in StreamRecords :
        /\ Transaction_try_from(record) = None
        /\ ReadItem(Some(record))
        /\ fpc' = "drain"
        /\ UNCHANGED <<client_vars, output_record, unit_vars, pending,
                       client_processors, result_receivers,
                       active_transactions, tx_receiver, processors, received,
                       apc, result_sender, results, applied, spawned,
                       sent_results>>

\* The record is not a valid transaction: continue.
StreamInvalidRecord ==
    \E record \in StreamRecords :
        /\ Transaction_try_from(record) = None
        /\ ReadItem(Some(record))
        /\ UNCHANGED <<client_vars, output_record, unit_vars, fpc, pending, client_processors, result_receivers,
                       active_transactions, tx_receiver, processors, received,
                       apc, result_sender, results, applied, spawned,
                       sent_results>>

\* The client has a sender: send_and_register registers the transaction
\* and starts to send it.
RouteToExisting ==
    \E record \in StreamRecords :
        LET t == Transaction_try_from(record)
        IN  /\ t # None
            /\ client_processors_get(client_processors, Transaction_client(t[1]))
            /\ ReadItem(Some(record))
            /\ active_transactions' = fetch_add(active_transactions)
            /\ pending' = t[1]
            /\ fpc' = "send"
            /\ UNCHANGED <<client_vars, output_record, unit_vars, client_processors, result_receivers, tx_receiver,
                           processors, received, apc, result_sender, results,
                           applied, spawned, sent_results>>

\* The client has no sender: the channels and the ClientProcessor are
\* created, both endpoints are registered, the crank task is spawned, and
\* send_and_register registers the transaction and starts to send it.
RouteToNew ==
    \E record \in StreamRecords :
        LET t == Transaction_try_from(record)
        IN  /\ t # None
            /\ ~client_processors_get(client_processors, Transaction_client(t[1]))
            /\ ReadItem(Some(record))
            /\ LET c == Transaction_client(t[1])
               IN  /\ tx_receiver' = [tx_receiver EXCEPT ![c] = <<>>]
                   /\ result_sender' = [result_sender EXCEPT ![c] = None]
                   /\ processors' = [processors EXCEPT ![c] = ClientProcessor_new]
                   /\ received' = [received EXCEPT ![c] = NoTx]
                   /\ client_processors' = client_processors \cup {c}
                   /\ result_receivers' = result_receivers \cup {c}
                   /\ apc' = [apc EXCEPT ![c] = "recv"]
                   /\ spawned' = [spawned EXCEPT ![c] = @ + 1]
            /\ active_transactions' = fetch_add(active_transactions)
            /\ pending' = t[1]
            /\ fpc' = "send"
            /\ UNCHANGED <<client_vars, output_record, unit_vars, results, applied, sent_results>>

\* sender.send(tx).await completes: the transaction is queued (or the
\* error of a closed channel is ignored).
Send ==
    /\ fpc = "send"
    /\ LET c == Transaction_client(pending)
       IN  IF apc[c] = "exited"
           THEN UNCHANGED tx_receiver
           ELSE /\ mpsc_can_send(tx_receiver[c])
                /\ tx_receiver' = [tx_receiver EXCEPT ![c] = mpsc_send(@, pending)]
    /\ pending' = NoTx
    /\ fpc' = "next"
    /\ UNCHANGED <<client_vars, output_record, unit_vars, input, client_processors, result_receivers,
                   active_transactions, processors, received, apc,
                   result_sender, results, applied, spawned, sent_results>>

\* stream.next() yields None: the input has ended.
StreamEnd ==
    /\ fpc = "next"
    /\ fpc' = "drain"
    /\ UNCHANGED <<client_vars, output_record, unit_vars, input, pending, client_processors, result_receivers,
                   active_transactions, tx_receiver, processors, received, apc,
                   result_sender, results, applied, spawned, sent_results>>

\* A drain that does not wait for the counter.
DrainDone_without_wait ==
    /\ fpc = "drain"
    /\ fpc' = "drop"
    /\ UNCHANGED <<client_vars, output_record, unit_vars, input, pending, client_processors, result_receivers,
                   active_transactions, tx_receiver, processors, received, apc,
                   result_sender, results, applied, spawned, sent_results>>

\* The wait loop loads the counter and finds it at zero.
DrainDone ==
    /\ fpc = "drain"
    /\ ~(active_transactions > 0)
    /\ fpc' = "drop"
    /\ UNCHANGED <<client_vars, output_record, unit_vars, input, pending, client_processors, result_receivers,
                   active_transactions, tx_receiver, processors, received, apc,
                   result_sender, results, applied, spawned, sent_results>>

\* self.client_processors = HashMap::new() drops every sender.
DropSenders ==
    /\ fpc = "drop"
    /\ client_processors' = {}
    /\ fpc' = "results"
    /\ UNCHANGED <<client_vars, output_record, unit_vars, input, pending, result_receivers, active_transactions,
                   tx_receiver, processors, received, apc, result_sender,
                   results, applied, spawned, sent_results>>

\* The clients whose receiver the result stream has already awaited.
Collected == {results[i].client : i \in DOMAIN results}

\* The result stream awaits the receiver of c (the iteration order of the
\* map is unspecified): it yields the ClientState that was sent, or the
\* error CouldNotReceiveResults (state = None) when the sender was dropped
\* without sending.
CollectResult(c) ==
    /\ fpc = "results"
    /\ c \in result_receivers \ Collected
    /\ result_sender[c] # None \/ apc[c] = "exited"
    /\ results' = Append(results, [client |-> c, state |-> result_sender[c]])
    /\ fpc' = IF result_receivers \ Collected = {c} THEN "done" ELSE "results"
    /\ UNCHANGED <<client_vars, output_record, unit_vars, input, pending, client_processors, result_receivers,
                   active_transactions, tx_receiver, processors, received, apc,
                   result_sender, applied, spawned, sent_results>>

\* The result stream over an empty map ends at once.
CollectNothing ==
    /\ fpc = "results"
    /\ result_receivers = {}
    /\ fpc' = "done"
    /\ UNCHANGED <<client_vars, output_record, unit_vars, input, pending, client_processors, result_receivers,
                   active_transactions, tx_receiver, processors, received, apc,
                   result_sender, results, applied, spawned, sent_results>>

\* Every sender of the channel of c has been dropped: the one in the map
\* and the local one that send_and_register is using.
SendersDropped(c) ==
    /\ c \notin client_processors
    /\ ~(fpc = "send" /\ Transaction_client(pending) = c)

\* crank of c: recv yields the next transaction.
ActorRecv(c) ==
    /\ apc[c] = "recv"
    /\ tx_receiver[c] # <<>>
    /\ received' = [received EXCEPT ![c] = Head(tx_receiver[c])]
    /\ tx_receiver' = [tx_receiver EXCEPT ![c] = Tail(@)]
    /\ apc' = [apc EXCEPT ![c] = "process"]
    /\ UNCHANGED <<client_vars, output_record, unit_vars, input, fpc, pending, client_processors, result_receivers,
                   active_transactions, processors, result_sender, results,
                   applied, spawned, sent_results>>

\* A crank that returns the error of a transaction with `?`.
ActorProcess_stop_on_error(c) ==
    /\ apc[c] = "process"
    /\ processors' = [processors EXCEPT ![c] = crank(@, received[c]).p]
    /\ applied' = [applied EXCEPT ![c] = Append(@, received[c])]
    /\ received' = [received EXCEPT ![c] = NoTx]
    /\ IF crank(processors[c], received[c]).res \in Errors
       THEN /\ apc' = [apc EXCEPT ![c] = "exited"]
            /\ UNCHANGED active_transactions
       ELSE /\ apc' = [apc EXCEPT ![c] = "recv"]
            /\ active_transactions' = fetch_sub(active_transactions)
    /\ UNCHANGED <<client_vars, output_record, unit_vars, input, fpc, pending,
                   client_processors, result_receivers, tx_receiver,
                   result_sender, results, spawned, sent_results>>

\* A crank that goes on to the next transaction of a locked account
\* without decrementing the counter.
ActorProcess_locked_continue(c) ==
    /\ apc[c] = "process"
    /\ processors' = [processors EXCEPT ![c] = crank(@, received[c]).p]
    /\ active_transactions' =
          IF processors[c].locked THEN active_transactions
          ELSE fetch_sub(active_transactions)
    /\ applied' = [applied EXCEPT ![c] = Append(@, received[c])]
    /\ received' = [received EXCEPT ![c] = NoTx]
    /\ apc' = [apc EXCEPT ![c] = "recv"]
    /\ UNCHANGED <<client_vars, output_record, unit_vars, input, fpc, pending,
                   client_processors, result_receivers, tx_receiver,
                   result_sender, results, spawned, sent_results>>

\* crank of c: the received transaction is processed and the counter is
\* decremented.
ActorProcess(c) ==
    /\ apc[c] = "process"
    /\ processors' = [processors EXCEPT ![c] = crank(@, received[c]).p]
    /\ active_transactions' = fetch_sub(active_transactions)
    /\ applied' = [applied EXCEPT ![c] = Append(@, received[c])]
    /\ received' = [received EXCEPT ![c] = NoTx]
    /\ apc' = [apc EXCEPT ![c] = "recv"]
    /\ UNCHANGED <<client_vars, output_record, unit_vars, input, fpc, pending, client_processors, result_receivers,
                   tx_receiver, result_sender, results, spawned, sent_results>>

\* A crank that sends the ClientState and goes back to waiting.
ActorFinish_and_wait(c) ==
    /\ apc[c] = "recv"
    /\ mpsc_recv_is_none(tx_receiver[c], SendersDropped(c))
    /\ result_sender' =
          [result_sender EXCEPT ![c] = oneshot_send(@, ClientState(c, processors[c]))]
    /\ sent_results' = [sent_results EXCEPT ![c] = @ + 1]
    /\ UNCHANGED <<client_vars, output_record, unit_vars, input, fpc, pending, client_processors,
                   result_receivers, active_transactions, tx_receiver,
                   processors, received, apc, results, applied, spawned>>

\* crank of c: recv yields None, the loop ends, the ClientState is sent
\* and the task ends.
ActorFinish(c) ==
    /\ apc[c] = "recv"
    /\ mpsc_recv_is_none(tx_receiver[c], SendersDropped(c))
    /\ result_sender' =
          [result_sender EXCEPT ![c] = oneshot_send(@, ClientState(c, processors[c]))]
    /\ sent_results' = [sent_results EXCEPT ![c] = @ + 1]
    /\ apc' = [apc EXCEPT ![c] = "exited"]
    /\ UNCHANGED <<client_vars, output_record, unit_vars, input, fpc, pending, client_processors, result_receivers,
                   active_transactions, tx_receiver, processors, received,
                   results, applied, spawned>>

\* The steps of StreamProcessor::process and of its result stream.
FabricStep ==
    \/ StreamCsvError
    \/ StreamInvalidRecord
    \/ RouteToExisting
    \/ RouteToNew
    \/ Send
    \/ StreamEnd
    \/ DrainDone
    \/ DropSenders
    \/ CollectNothing
    \/ \E c \in Clients : CollectResult(c)

\* The steps of the crank task of c.
ActorStep(c) ==
    \/ ActorRecv(c)
    \/ ActorProcess(c)
    \/ ActorFinish(c)

FabricNext ==
    \/ FabricStep
    \/ \E c \in Clients : ActorStep(c)

FabricSpec == Init /\ [][FabricNext]_vars

\* The runtime keeps polling every task that can make progress.
FairFabricSpec ==
    /\ FabricSpec
    /\ WF_vars(FabricStep)
    /\ \A c \in Clients : WF_vars(ActorStep(c))

(***************************************************************************)
(* Transaction::try_from on its own: any record of the five kinds, with a  *)
(* missing, negative, zero or positive amount, is converted once.          *)
(***************************************************************************)
Kinds == {"Deposit", "Withdrawal", "Dispute", "Resolve", "Chargeback"}

\* Option<Decimal>: missing, or a decimal from -1 to the largest amount.
RecordAmounts == {None} \cup {Some(a) : a \in (0 - 1)..MaxAmount}

InputRecords ==
    {InputRecord(k, c, id, a) : k \in Kinds, c \in Clients, id \in TxIds,
                                a \in RecordAmounts}

ConvertInit ==
    /\ ClientInit
    /\ FabricInit
    /\ output_record = <<>>
    /\ input_record \in InputRecords
    /\ converted = <<>>
    /\ operand_self = new
    /\ operand_other = new
    /\ add_result = <<>>
    /\ sub_result = <<>>

\* record.try_into()
Convert ==
    /\ converted = <<>>
    /\ converted' = <<Transaction_try_from(input_record)>>
    /\ UNCHANGED <<client_vars, fabric_vars, output_record, input_record,
                   operand_self, operand_other, add_result, sub_result>>

ConvertNext == Convert

ConvertSpec == ConvertInit /\ [][ConvertNext]_vars

(***************************************************************************)
(* BalanceUpdater::add and sub on their own: both are applied once to any  *)
(* two NonNegative values.                                                 *)
(***************************************************************************)
Values == 0..MaxValue

ArithInit ==
    /\ ClientInit
    /\ FabricInit
    /\ output_record = <<>>
    /\ input_record = InputRecord("Dispute", Client, 0, None)
    /\ converted = <<>>
    /\ operand_self \in Values
    /\ operand_other \in Values
    /\ add_result = <<>>
    /\ sub_result = <<>>

\* self.add(other)
ApplyAdd ==
    /\ add_result = <<>>
    /\ add_result' = <<add(operand_self, operand_other)>>
    /\ UNCHANGED <<client_vars, fabric_vars, output_record, input_record,
                   converted, operand_self, operand_other, sub_result>>

\* self.sub(other)
ApplySub ==
    /\ sub_result = <<>>
    /\ sub_result' = <<sub(operand_self, operand_other)>>
    /\ UNCHANGED <<client_vars, fabric_vars, output_record, input_record,
                   converted, operand_self, operand_other, add_result>>

ArithNext ==
    \/ ApplyAdd
    \/ ApplySub

ArithSpec == ArithInit /\ [][ArithNext]_vars

(***************************************************************************)
(* Balances on its own (src/src/balances.rs): from Balances::new(), any    *)
(* of the five operations with any amount.  tx records the operation,      *)
(* tx_process_result whether it returned Ok, prev the value before it.      *)
(***************************************************************************)

\* One call of a Balances operation whose outcome is r.
BalancesCall(t, r) ==
    /\ balances' = r.b
    /\ tx' = t
    /\ tx_process_result' = IF r.ok THEN "NoAction" ELSE "ArithmeticOverflow"
    /\ prev' = Self
    /\ UNCHANGED <<locked, db, disputed, fabric_vars, output_record, unit_vars>>

BalancesDeposit ==
    \E a \in Values : BalancesCall(Deposit(Client, 0, a), deposit(balances, a))

BalancesWithdrawal ==
    \E a \in Values : BalancesCall(Withdrawal(Client, 0, a), withdrawal(balances, a))

BalancesDispute ==
    \E a \in Values :
        BalancesCall([Dispute(Client, 0) EXCEPT !.amount = a], dispute(balances, a))

BalancesResolve ==
    \E a \in Values :
        BalancesCall([Resolve(Client, 0) EXCEPT !.amount = a], resolve(balances, a))

BalancesChargeback ==
    \E a \in Values :
        BalancesCall([Chargeback(Client, 0) EXCEPT !.amount = a], chargeback(balances, a))

BalancesNext ==
    \/ BalancesDeposit
    \/ BalancesWithdrawal
    \/ BalancesDispute
    \/ BalancesResolve
    \/ BalancesChargeback

BalancesSpec == Init /\ [][BalancesNext]_vars

(***************************************************************************)
(* The conversion of the final ClientState of the processor into the       *)
(* record that is written out (src/src/csv.rs).                            *)
(***************************************************************************)

\* A conversion that takes the total from the stored balances.total.
OutputRecord_try_from_stored_total(client_state) ==
    Some([available |-> client_state.balances.available,
          held |-> client_state.balances.held,
          total |-> client_state.balances.total,
          client |-> client_state.client,
          locked |-> client_state.locked])

OutputRecord_try_from(client_state) ==
    LET sum == add(client_state.balances.available, client_state.balances.held)
    IN  IF sum = None
        THEN None
        ELSE Some([available |-> client_state.balances.available,
                   held |-> client_state.balances.held,
                   total |-> sum[1],
                   client |-> client_state.client,
                   locked |-> client_state.locked])

\* The processor goes on receiving transactions until its ClientState is
\* taken.
ActorRuns ==
    /\ output_record = <<>>
    /\ Next

\* The ClientState of the processor is taken and converted.
EmitOutput ==
    /\ output_record = <<>>
    /\ output_record' = <<OutputRecord_try_from(ClientState(Client, Self))>>
    /\ UNCHANGED <<client_vars, fabric_vars, unit_vars>>

OutputNext ==
    \/ ActorRuns
    \/ EmitOutput

OutputSpec == Init /\ [][OutputNext]_vars

(***************************************************************************)
(* The reference the fabric is compared with: the transactions of the      *)
(* input that were not rejected, and those of them that name client c.     *)
(***************************************************************************)
Accepted ==
    LET valid == SelectSeq(input, LAMBDA item :
                     item # None /\ Transaction_try_from(item[1]) # None)
    IN  [i \in 1..Len(valid) |-> Transaction_try_from(valid[i][1])[1]]

EventsOf(c) == SelectSeq(Accepted, LAMBDA t : t.client = c)

\* The processor of a client that has applied the transactions of events.
RECURSIVE Replay(_)
Replay(events) ==
    IF events = <<>> THEN ClientProcessor_new
    ELSE crank(Replay(SubSeq(events, 1, Len(events) - 1)), events[Len(events)]).p

\* The transactions handed to the actor of c so far: applied, being
\* processed, queued in its channel, and being sent to it.
Delivered(c) ==
    applied[c]
    \o (IF apc[c] = "process" THEN <<received[c]>> ELSE <<>>)
    \o tx_receiver[c]
    \o (IF fpc = "send" /\ pending.client = c THEN <<pending>> ELSE <<>>)

(***************************************************************************)
(* Properties.  In every state prev is the processor before the last       *)
(* received transaction tx, and Self the processor after it.               *)
(***************************************************************************)

\* C1: at every quiescent point available >= 0 and held >= 0.
C1_NonNegativeBalances ==
    /\ balances.available >= 0
    /\ balances.held >= 0

\* C1 witness: an unlocked account received a withdrawal larger than its
\* available balance.
C1_Witness ==
    /\ ~prev.locked
    /\ tx.kind = "Withdrawal"
    /\ tx.amount > prev.balances.available

\* C2: a transaction of any kind received by a locked account leaves
\* available, held, the deposit index, the disputed map and the locked flag
\* unchanged.
C2_LockedAbsorbs ==
    prev.locked =>
        /\ balances.available = prev.balances.available
        /\ balances.held = prev.balances.held
        /\ db = prev.db
        /\ disputed = prev.disputed
        /\ locked = prev.locked

\* C2 witness: a locked account with room for a deposit received a deposit
\* with a fresh id.
C2_Witness ==
    /\ prev.locked
    /\ tx.kind = "Deposit"
    /\ ~contains_key(prev.db, tx.tx)
    /\ prev.balances.available + tx.amount <= MaxValue
    /\ prev.balances.total + tx.amount <= MaxValue

\* C3: locked never goes from true to false, and goes from false to true
\* only when the received transaction is a Chargeback of a disputed id whose
\* balances.chargeback call succeeded.
C3_LockedOnlyBySuccessfulChargeback ==
    /\ prev.locked => locked
    /\ (~prev.locked /\ locked) =>
          /\ tx.kind = "Chargeback"
          /\ contains_key(prev.disputed, tx.tx)
          /\ prev.balances.held >= prev.disputed[tx.tx]
          /\ prev.balances.total >= prev.disputed[tx.tx]
          /\ tx_process_result = "LockAccount"
    /\ (~prev.locked /\ tx.kind # "Chargeback") => ~locked
    /\ (~prev.locked /\ tx_process_result \in Errors) => ~locked

\* C3 witness: the account has just been locked.
C3_Witness ==
    /\ ~prev.locked
    /\ locked

\* C4 (as claimed): every id of disputed is a key of the deposit index with
\* the same amount.
C4_DisputedMatchesDeposits ==
    \A id \in DOMAIN disputed :
        /\ contains_key(db, id)
        /\ disputed[id] = db[id]

\* C5 (as claimed): a Dispute on an unlocked account whose indexed amount
\* exceeds available fails and leaves available, held, the deposit index,
\* disputed and locked unchanged.
C5_FailedDisputeChangesNothing ==
    (/\ ~prev.locked
     /\ tx.kind = "Dispute"
     /\ contains_key(prev.db, tx.tx)
     /\ prev.db[tx.tx] > prev.balances.available) =>
        /\ balances.available = prev.balances.available
        /\ balances.held = prev.balances.held
        /\ db = prev.db
        /\ disputed = prev.disputed
        /\ locked = prev.locked
        /\ ~contains_key(prev.disputed, tx.tx) => tx_process_result \in Errors

\* C6 (as claimed): a Deposit whose checked addition overflows in a field
\* the operation updates is rejected with an error and leaves available,
\* held, the deposit index and disputed unchanged.
C6_OverflowingDepositChangesNothing ==
    (/\ ~prev.locked
     /\ tx.kind = "Deposit"
     /\ \/ prev.balances.available + tx.amount > MaxValue
        \/ prev.balances.total + tx.amount > MaxValue) =>
        /\ tx_process_result \in Errors
        /\ balances.available = prev.balances.available
        /\ balances.held = prev.balances.held
        /\ db = prev.db
        /\ disputed = prev.disputed

\* C7 (as claimed): on an unlocked account a Withdrawal of exactly available
\* succeeds and leaves available = 0 and held unchanged; a Withdrawal of
\* more than available fails and leaves available, held, the deposit index
\* and disputed unchanged.
C7_WithdrawalBoundary ==
    (~prev.locked /\ tx.kind = "Withdrawal") =>
        /\ tx.amount = prev.balances.available =>
              /\ tx_process_result \in OkOutcomes
              /\ balances.available = 0
              /\ balances.held = prev.balances.held
        /\ tx.amount > prev.balances.available =>
              /\ tx_process_result \in Errors
              /\ balances.available = prev.balances.available
              /\ balances.held = prev.balances.held
              /\ db = prev.db
              /\ disputed = prev.disputed

\* C8 (as claimed): on an unlocked account, for an id in the deposit index
\* that is not disputed, Dispute(id) immediately followed by Resolve(id)
\* yields available, held and disputed equal to their values before the
\* Dispute.
C8_DisputeThenResolveRestores ==
    [][(/\ tx.kind = "Dispute"
        /\ ~prev.locked
        /\ contains_key(prev.db, tx.tx)
        /\ ~contains_key(prev.disputed, tx.tx)
        /\ tx'.kind = "Resolve"
        /\ tx'.tx = tx.tx) =>
           /\ balances'.available = prev.balances.available
           /\ balances'.held = prev.balances.held
           /\ disputed' = prev.disputed]_vars

\* C9: a Dispute of an id that is already a key of disputed leaves
\* available, held, disputed, the deposit index and locked unchanged.
C9_SecondDisputeIsNoOp ==
    (tx.kind = "Dispute" /\ contains_key(prev.disputed, tx.tx)) =>
        /\ balances.available = prev.balances.available
        /\ balances.held = prev.balances.held
        /\ disputed = prev.disputed
        /\ db = prev.db
        /\ locked = prev.locked

\* C9 witness: an unlocked account that could afford a second hold received
\* a Dispute of an already disputed id.
C9_Witness ==
    /\ ~prev.locked
    /\ tx.kind = "Dispute"
    /\ contains_key(prev.disputed, tx.tx)
    /\ contains_key(prev.db, tx.tx)
    /\ prev.balances.available >= prev.db[tx.tx]
    /\ prev.balances.held + prev.db[tx.tx] <= MaxValue

\* C10: a Resolve or Chargeback of an id that is not a key of disputed
\* leaves the balances, disputed, the deposit index and locked unchanged; in
\* particular it does not lock the account.
C10_ResolveChargebackUndisputedIsNoOp ==
    (tx.kind \in {"Resolve", "Chargeback"} /\ ~contains_key(prev.disputed, tx.tx)) =>
        /\ balances = prev.balances
        /\ disputed = prev.disputed
        /\ db = prev.db
        /\ locked = prev.locked
        /\ ~prev.locked => ~locked

\* C10 witness: an unlocked account holding at least the deposit's amount
\* received a Resolve of an indexed id that is not disputed.
C10_Witness ==
    /\ ~prev.locked
    /\ tx.kind = "Resolve"
    /\ contains_key(prev.db, tx.tx)
    /\ ~contains_key(prev.disputed, tx.tx)
    /\ prev.balances.held >= prev.db[tx.tx]

\* C11: a successful Withdrawal leaves the deposit index unchanged, and a
\* Dispute of an id that is not in the deposit index (such as the id of a
\* withdrawal) moves no funds and leaves disputed, the deposit index and
\* locked unchanged.
C11_WithdrawalNotIndexed ==
    /\ (tx.kind = "Withdrawal") => db = prev.db
    /\ (tx.kind = "Dispute" /\ ~contains_key(prev.db, tx.tx)) =>
          /\ balances = prev.balances
          /\ disputed = prev.disputed
          /\ db = prev.db
          /\ locked = prev.locked

\* C11 witness: a withdrawal with an id that is not in the deposit index
\* succeeded and left funds that a dispute could hold.
C11_Witness ==
    /\ ~prev.locked
    /\ tx.kind = "Withdrawal"
    /\ tx_process_result = "NoAction"
    /\ ~contains_key(prev.db, tx.tx)
    /\ balances.available >= tx.amount

\* C12: at every moment the transactions handed to the actor of a client
\* (applied, in hand, queued, being sent) are exactly the non-rejected input
\* events naming that client, each once; a client has one actor if a
\* non-rejected event named it and none otherwise, and its sender stays
\* registered until the input has ended and the queue has been drained.
C12_DeliveredExactlyOnce ==
    \A c \in Clients :
        /\ Delivered(c) = EventsOf(c)
        /\ spawned[c] = IF EventsOf(c) # <<>> THEN 1 ELSE 0
        /\ (fpc \in {"next", "send", "drain", "drop"} /\ EventsOf(c) # <<>>)
              => c \in client_processors

\* C12 witness: the run is complete, client 1 was named by two non-rejected
\* events and client 2 by one, and all of them were applied.
C12_Witness ==
    /\ fpc = "done"
    /\ Len(applied[1]) = 2
    /\ Len(applied[2]) = 1

\* C13: the transactions the actor of a client has applied are, in order,
\* the first non-rejected input events naming that client.
C13_AppliedInInputOrder ==
    \A c \in Clients :
        /\ Len(applied[c]) <= Len(EventsOf(c))
        /\ applied[c] = SubSeq(EventsOf(c), 1, Len(applied[c]))

\* C13 witness: the actor of client 1 has applied one event, is processing
\* a different one, and a third is waiting in its channel.
C13_Witness ==
    /\ applied[1] # <<>>
    /\ apc[1] = "process"
    /\ received[1] # applied[1][1]
    /\ tx_receiver[1] # <<>>

\* C14: when the ClientState of a client has been sent, every non-rejected
\* input event naming the client has been applied, none is queued, in hand
\* or being sent, and the ClientState is that of the processor after them.
C14_SnapshotAfterAllEvents ==
    \A c \in Clients :
        result_sender[c] # None =>
            /\ applied[c] = EventsOf(c)
            /\ tx_receiver[c] = <<>>
            /\ apc[c] # "process"
            /\ ~(fpc = "send" /\ pending.client = c)
            /\ result_sender[c] = Some(ClientState(c, Replay(applied[c])))

\* C14 witness: the ClientState of client 1 was sent after a deposit, its
\* dispute and its chargeback had been applied.
C14_Witness ==
    /\ result_sender[1] # None
    /\ Len(applied[1]) = 3
    /\ result_sender[1][1].locked

\* C15: an actor has sent one ClientState if it has ended and none
\* otherwise, and it ends only after the fabric has dropped the sender of
\* its channel and the channel is empty.
C15_ExactlyOneSnapshot ==
    \A c \in Clients :
        /\ sent_results[c] = IF apc[c] = "exited" THEN 1 ELSE 0
        /\ apc[c] = "exited" =>
              /\ c \notin client_processors
              /\ fpc \in {"results", "done"}
              /\ tx_receiver[c] = <<>>
        /\ (fpc = "done" /\ spawned[c] > 0) => sent_results[c] = 1

\* C15 witness: the run is complete and both actors have sent their
\* ClientState.
C15_Witness ==
    /\ fpc = "done"
    /\ sent_results[1] = 1
    /\ sent_results[2] = 1

\* C16: when the result stream has ended it has yielded one item for every
\* client named by a non-rejected input event, that item is a ClientState,
\* and it has yielded no item for any other client.
C16_OneResultPerClient ==
    fpc = "done" =>
        \A c \in Clients :
            LET items == {i \in DOMAIN results : results[i].client = c}
            IN  /\ Cardinality(items) = IF EventsOf(c) # <<>> THEN 1 ELSE 0
                /\ \A i \in items : results[i].state # None

\* C16 witness: the run is complete, the input had a rejected item and
\* events of client 2 only, and the result stream yielded one item.
C16_Witness ==
    /\ fpc = "done"
    /\ Len(Accepted) < Len(input)
    /\ EventsOf(1) = <<>>
    /\ Len(results) = 1

\* C17: under fair scheduling of the fabric and of every actor the run
\* ends: the counter is zero, the senders are dropped, every actor has sent
\* its ClientState and ended, and the result stream has yielded the item of
\* every receiver.
C17_RunTerminates ==
    <>(/\ fpc = "done"
       /\ active_transactions = 0
       /\ client_processors = {}
       /\ \A c \in result_receivers :
              /\ apc[c] = "exited"
              /\ result_sender[c] # None
              /\ c \in Collected)

\* C17 witness: the input has not ended and a send is waiting for room in
\* a full channel, so that only the actor of that channel can let the run
\* go on.
C17_Witness ==
    /\ fpc = "send"
    /\ ~mpsc_can_send(tx_receiver[pending.client])
    /\ active_transactions > TX_CHANNEL_SIZE

\* C18: the counter is the number of transactions that were registered
\* and have not yet been processed; it is never negative and has not
\* wrapped around.
C18_CounterNeverNegative ==
    LET processed == UNION {{<<c, i>> : i \in 1..Len(applied[c])} : c \in Clients}
    IN  /\ active_transactions = Len(Accepted) - Cardinality(processed)
        /\ active_transactions <= Len(input)

\* C18 witness: the input has not ended and the actors of both clients
\* have decremented the counter back to zero.
C18_Witness ==
    /\ fpc = "next"
    /\ active_transactions = 0
    /\ applied[1] # <<>>
    /\ applied[2] # <<>>

\* C19: after every step the processor of each client is the one that
\* results from the transactions applied for that client alone, a step that
\* applies a transaction of one client leaves the processor of every other
\* client unchanged, and every ClientState the result stream yields is the
\* one that results from the non-rejected input events naming its client,
\* whatever the input had between them and however the tasks were scheduled.
C19_SnapshotDependsOnOwnEvents ==
    [][/\ \A c \in Clients :
            /\ processors'[c] = Replay(applied'[c])
            /\ applied'[c] # applied[c] =>
                  \A d \in Clients \ {c} : processors'[d] = processors[d]
       /\ \A i \in DOMAIN results' :
            results'[i].state # None =>
                results'[i].state[1] =
                    ClientState(results'[i].client,
                                Replay(SelectSeq(Accepted', LAMBDA t :
                                           t.client = results'[i].client)))]_vars

\* C19 witness: the input had a deposit of client 1, then a deposit of
\* client 2, then the dispute of client 1, and the result stream has yielded
\* the ClientState of both.
C19_Witness ==
    /\ fpc = "done"
    /\ Accepted = <<Deposit(1, 1, 1), Deposit(2, 1, 1), Dispute(1, 1)>>
    /\ Len(results) = 2
    /\ \A i \in DOMAIN results : results[i].state # None

\* C20: the conversion of a ClientState yields a record whose total is
\* the sum of the available and held of that ClientState, and whose
\* available and held are those of the ClientState; when the sum overflows
\* the conversion fails and yields no record.
C20_TotalIsAvailablePlusHeld ==
    output_record # <<>> =>
        LET r == output_record[1]
        IN  IF balances.available + balances.held > MaxValue
            THEN r = None
            ELSE /\ r # None
                 /\ r[1].total = balances.available + balances.held
                 /\ r[1].available = balances.available
                 /\ r[1].held = balances.held

\* C20 witness: a record was produced for a ClientState with available and
\* held funds whose sum is the largest value.
C20_Witness ==
    /\ output_record # <<>>
    /\ output_record[1] # None
    /\ output_record[1][1].available > 0
    /\ output_record[1][1].held > 0
    /\ output_record[1][1].total = MaxValue

\* C21: when the processing of a transaction applied by the actor of a
\* client returned an error, the actor has not ended before its channel was
\* closed and empty: if it has ended, every non-rejected input event naming
\* the client was applied and its ClientState was sent, and when the run is
\* complete it has ended.
C21_ErrorDoesNotStopActor ==
    \A c \in Clients :
        (\E i \in DOMAIN applied[c] :
            crank(Replay(SubSeq(applied[c], 1, i - 1)), applied[c][i]).res \in Errors)
        => /\ apc[c] = "exited" =>
                /\ applied[c] = EventsOf(c)
                /\ tx_receiver[c] = <<>>
                /\ SendersDropped(c)
                /\ result_sender[c] = Some(ClientState(c, Replay(EventsOf(c))))
           /\ fpc = "done" => apc[c] = "exited"

\* C21 witness: the actor of client 1 applied a deposit, then a deposit
\* with the same id, which returned DuplicatedTransaction, then the dispute,
\* and sent a ClientState with held funds.
C21_Witness ==
    /\ fpc = "done"
    /\ Len(applied[1]) = 3
    /\ crank(Replay(SubSeq(applied[1], 1, 1)), applied[1][2]).res = "DuplicatedTransaction"
    /\ result_sender[1] # None
    /\ result_sender[1][1].balances.held > 0

\* C22: a step that reads a csv error or a record that is not a valid
\* transaction changes nothing but the input read so far: the counter, the
\* senders, the receivers, the channels, the processors and the task states
\* stay as they are, and the fabric goes on to read the next record.
C22_RejectedRecordIsSkipped ==
    [][(/\ Len(input') = Len(input) + 1
        /\ \/ input'[Len(input')] = None
           \/ Transaction_try_from(input'[Len(input')][1]) = None)
       => /\ fpc' = "next"
          /\ UNCHANGED <<pending, client_processors, result_receivers,
                         active_transactions, tx_receiver, processors,
                         received, apc, result_sender, results, applied,
                         spawned, sent_results>>]_vars

\* C22 witness: the input began with a csv error and a deposit without
\* amount, and the deposit that followed them has been applied.
C22_Witness ==
    /\ Len(input) = 3
    /\ input[1] = None
    /\ input[2] = Some(InputRecord("Deposit", 1, 1, None))
    /\ input[3] = Some(InputRecord("Deposit", 1, 1, Some(1)))
    /\ applied[1] = <<Deposit(1, 1, 1)>>
    /\ active_transactions = 0
    /\ spawned[1] = 1

\* C23: a Deposit or Withdrawal record is converted to a transaction
\* exactly when its amount is present and greater than zero, and the
\* transaction then carries that amount; a record with a missing, zero or
\* negative amount is rejected.
C23_AmountMustBePositive ==
    (converted # <<>> /\ input_record.kind \in {"Deposit", "Withdrawal"}) =>
        /\ converted[1] # None <=>
              (input_record.amount # None /\ input_record.amount[1] > 0)
        /\ converted[1] # None =>
              /\ converted[1][1].kind = input_record.kind
              /\ converted[1][1].amount = input_record.amount[1]
              /\ converted[1][1].amount > 0

\* C23 witness: a Withdrawal record with amount zero was rejected.
C23_Witness ==
    /\ converted = <<None>>
    /\ input_record.kind = "Withdrawal"
    /\ input_record.amount = Some(0)

\* C24: when a Deposit reaches the insertion into the deposit index (its
\* balance update succeeded), the insertion of an id that is already in the
\* index fails with DuplicatedTransaction, and the insertion of an id that
\* is not in the index succeeds, maps the id to the amount of the deposit
\* and leaves every other entry as it was.
C24_InsertRejectsDuplicateId ==
    (tx.kind = "Deposit" /\ ~prev.locked /\ tx_process_result # "InvalidTransaction") =>
        IF contains_key(prev.db, tx.tx)
        THEN tx_process_result = "DuplicatedTransaction"
        ELSE /\ tx_process_result = "NoAction"
             /\ DOMAIN db = DOMAIN prev.db \cup {tx.tx}
             /\ db[tx.tx] = tx.amount
             /\ \A id \in DOMAIN prev.db : db[id] = prev.db[id]

\* C24 witness: a deposit whose id was already in the deposit index was
\* rejected with DuplicatedTransaction.
C24_Witness ==
    /\ tx.kind = "Deposit"
    /\ contains_key(prev.db, tx.tx)
    /\ tx_process_result = "DuplicatedTransaction"

\* C25: add yields no value exactly when the sum of the operands exceeds
\* the largest value and otherwise the sum; sub yields no value exactly when
\* the difference of the operands is negative and otherwise the difference;
\* so sub(x, x) is Some(0) and sub(0, y) is None for y > 0.
C25_CheckedArithmetic ==
    /\ add_result # <<>> =>
          add_result[1] = IF operand_self + operand_other > MaxValue
                          THEN None
                          ELSE Some(operand_self + operand_other)
    /\ sub_result # <<>> =>
          /\ sub_result[1] = IF operand_self - operand_other < 0
                              THEN None
                              ELSE Some(operand_self - operand_other)
          /\ operand_self = operand_other => sub_result[1] = Some(0)
          /\ (operand_self = 0 /\ operand_other > 0) => sub_result[1] = None

\* C25 witness: for two equal operands whose sum exceeds the largest value
\* add yielded no value and sub yielded zero.
C25_Witness ==
    /\ operand_self = operand_other
    /\ add_result = <<None>>
    /\ sub_result = <<Some(0)>>

\* C26: a Resolve or a Chargeback of a disputed id whose balance operation
\* fails leaves available and held as they were, leaves the id in disputed
\* and does not lock the account.
C26_FailedResolveChargebackChangesNothing ==
    (/\ tx.kind \in {"Resolve", "Chargeback"}
     /\ ~prev.locked
     /\ contains_key(prev.disputed, tx.tx)
     /\ tx_process_result = "ArithmeticOverflow")
    => /\ balances.available = prev.balances.available
       /\ balances.held = prev.balances.held
       /\ disputed = prev.disputed
       /\ ~locked

\* C27: when the Balances operation of the last transaction succeeded it
\* had the effect of the table: deposit adds the amount to available,
\* withdrawal takes it from available, dispute moves it from available to
\* held, resolve moves it from held to available, chargeback takes it from
\* held; deposit and withdrawal leave held as it was and chargeback leaves
\* available as it was.
C27_BalancesOperationsEffect ==
    ~prev.locked =>
        /\ (tx.kind = "Deposit" /\ tx_process_result \in {"NoAction", "DuplicatedTransaction"}) =>
              /\ balances.available = prev.balances.available + tx.amount
              /\ balances.held = prev.balances.held
        /\ (tx.kind = "Withdrawal" /\ tx_process_result = "NoAction") =>
              /\ balances.available = prev.balances.available - tx.amount
              /\ balances.held = prev.balances.held
        /\ (/\ tx.kind = "Dispute"
            /\ tx_process_result = "NoAction"
            /\ contains_key(prev.db, tx.tx)
            /\ ~contains_key(prev.disputed, tx.tx)) =>
              /\ balances.available = prev.balances.available - prev.db[tx.tx]
              /\ balances.held = prev.balances.held + prev.db[tx.tx]
        /\ (/\ tx.kind = "Resolve"
            /\ tx_process_result = "NoAction"
            /\ contains_key(prev.disputed, tx.tx)) =>
              /\ balances.available = prev.balances.available + prev.disputed[tx.tx]
              /\ balances.held = prev.balances.held - prev.disputed[tx.tx]
        /\ (tx.kind = "Chargeback" /\ tx_process_result = "LockAccount") =>
              /\ balances.held = prev.balances.held - prev.disputed[tx.tx]
              /\ balances.available = prev.balances.available

\* C27 witness: a chargeback succeeded on an account that had available
\* funds and more held funds than the disputed amount.
C27_Witness ==
    /\ ~prev.locked
    /\ tx.kind = "Chargeback"
    /\ tx_process_result = "LockAccount"
    /\ balances.available > 0
    /\ balances.held > 0

\* C28: on an unlocked account a Chargeback of a disputed id whose balance
\* operation succeeds lowers held by the disputed amount, leaves available
\* as it was, removes the id from disputed and locks the account in the same
\* step; the account becomes locked in no other step, so a locked account
\* has no further successful chargeback.
C28_SuccessfulChargebackLocksOnce ==
    [][/\ (/\ ~locked
           /\ tx'.kind = "Chargeback"
           /\ contains_key(disputed, tx'.tx)
           /\ chargeback(balances, disputed[tx'.tx]).ok) =>
             /\ tx_process_result' = "LockAccount"
             /\ balances'.held = balances.held - disputed[tx'.tx]
             /\ balances'.available = balances.available
             /\ ~contains_key(disputed', tx'.tx)
             /\ locked'
       /\ (~locked /\ locked') =>
             /\ tx'.kind = "Chargeback"
             /\ contains_key(disputed, tx'.tx)
             /\ tx_process_result' = "LockAccount"
       /\ locked => (locked' /\ tx_process_result' # "LockAccount")]_vars

\* C28 witness: a chargeback has just locked an account that was unlocked,
\* while another id stays disputed.
C28_Witness ==
    /\ tx.kind = "Chargeback"
    /\ tx_process_result = "LockAccount"
    /\ ~prev.locked
    /\ locked
    /\ contains_key(prev.disputed, tx.tx)
    /\ ~contains_key(disputed, tx.tx)
    /\ \E id \in TxIds : contains_key(disputed, id)

\* C29: after a successful Resolve of an id the id is no longer disputed
\* but is still in the deposit index with its amount; if the account has at
\* least that amount available, a Dispute of the id moves the amount into
\* held again and a Chargeback of the id after it locks the account.
C29_ResolvedDepositCanBeDisputedAgain ==
    (/\ tx.kind = "Resolve"
     /\ ~prev.locked
     /\ contains_key(prev.disputed, tx.tx)
     /\ tx_process_result = "NoAction")
    => /\ ~contains_key(disputed, tx.tx)
       /\ contains_key(db, tx.tx)
       /\ db[tx.tx] = prev.db[tx.tx]
       /\ ~locked
       /\ balances.available >= db[tx.tx] =>
             LET d == crank(Self, Dispute(Client, tx.tx))
                 c == crank(d.p, Chargeback(Client, tx.tx))
             IN  /\ d.p.balances.held = balances.held + db[tx.tx]
                 /\ d.p.balances.available = balances.available - db[tx.tx]
                 /\ contains_key(d.p.disputed, tx.tx)
                 /\ c.res = "LockAccount"
                 /\ c.p.locked

\* C30: the lifecycle state of a deposit id (UNKNOWN when it is not in the
\* deposit index, DISPUTED when it is in disputed, SETTLED otherwise) changes
\* only by a Deposit of an unknown id, a Dispute of a settled id, a Resolve
\* of a disputed id or a Chargeback of a disputed id; every other Deposit,
\* Dispute, Resolve or Chargeback on the id, a Deposit of an id that is
\* already settled or disputed included, leaves balances, index, disputed
\* and locked as they were.
C30_DepositLifecycle ==
    LET LifeCycle(d, dis, id) ==
            IF contains_key(dis, id) THEN "DISPUTED"
            ELSE IF contains_key(d, id) THEN "SETTLED" ELSE "UNKNOWN"
        before == LifeCycle(prev.db, prev.disputed, tx.tx)
        Allowed ==
            /\ ~prev.locked
            /\ \/ tx.kind = "Deposit" /\ before = "UNKNOWN"
               \/ tx.kind = "Dispute" /\ before = "SETTLED"
               \/ tx.kind \in {"Resolve", "Chargeback"} /\ before = "DISPUTED"
    IN  /\ \A id \in TxIds :
              LifeCycle(db, disputed, id) # LifeCycle(prev.db, prev.disputed, id)
              => (id = tx.tx /\ Allowed)
        /\ (tx.kind \in {"Deposit", "Dispute", "Resolve", "Chargeback"} /\ ~Allowed)
           => /\ balances = prev.balances
              /\ db = prev.db
              /\ disputed = prev.disputed
              /\ locked = prev.locked

\* C31: a Deposit on an unlocked account whose id is already in the deposit
\* index and whose additions do not overflow is reported as a duplicate,
\* and its balance change is kept: available is raised by the amount, held
\* stays as it was and the account stays unlocked.
C31_DuplicateDepositIsNotRolledBack ==
    (/\ tx.kind = "Deposit"
     /\ ~prev.locked
     /\ contains_key(prev.db, tx.tx)
     /\ deposit(prev.balances, tx.amount).ok)
    => /\ tx_process_result = "DuplicatedTransaction"
       /\ balances.available = prev.balances.available + tx.amount
       /\ balances.held = prev.balances.held
       /\ ~locked

\* C31 witness: a deposit reusing an indexed id was reported as a duplicate
\* on an account that had funds available, and available grew.
C31_Witness ==
    /\ tx.kind = "Deposit"
    /\ ~prev.locked
    /\ contains_key(prev.db, tx.tx)
    /\ tx_process_result = "DuplicatedTransaction"
    /\ prev.balances.available > 0
    /\ balances.available > prev.balances.available

\* C32: the fabric removes senders only in the step that follows the end
\* of the input and the load of the counter that found it at zero; in the
\* state in which the senders are dropped the counter is zero, no send is
\* pending, the inbound channel of every actor is empty and no actor holds
\* a received transaction that it has not finished applying.
C32_SendersDroppedWhenIdle ==
    [][(\/ ~(client_processors \subseteq client_processors')
        \/ (fpc = "drop" /\ fpc' # "drop"))
       => /\ fpc = "drop"
          /\ fpc' = "results"
          /\ client_processors' = {}
          /\ active_transactions = 0
          /\ pending = NoTx
          /\ \A c \in Clients :
                /\ tx_receiver[c] = <<>>
                /\ apc[c] # "process"
                /\ received[c] = NoTx]_vars

\* C32 witness: the senders of two spawned actors have been dropped after
\* the only actor with two events had applied both.
C32_Witness ==
    /\ fpc = "results"
    /\ client_processors = {}
    /\ result_receivers = Clients
    /\ Len(applied[1]) = 2
    /\ Len(applied[2]) = 1
    /\ results = <<>>

\* C33: the inbound channel of an actor never holds more transactions than
\* its capacity; while the channel of the pending transaction is full the
\* send stays pending, the fabric reads no input record, and no channel
\* gets a transaction: only the actors' receiving and processing go on.
C33_Backpressure ==
    /\ [](\A c \in Clients : Len(tx_receiver[c]) <= TX_CHANNEL_SIZE)
    /\ [][(/\ fpc = "send"
            /\ apc[Transaction_client(pending)] # "exited"
            /\ Len(tx_receiver[Transaction_client(pending)]) = TX_CHANNEL_SIZE)
           => /\ fpc' = "send"
              /\ pending' = pending
              /\ input' = input
              /\ active_transactions' <= active_transactions
              /\ \A c \in Clients : Len(tx_receiver'[c]) <= Len(tx_receiver[c])]_vars

\* C33 witness: a transaction is pending for an actor whose channel is
\* full.
C33_Witness ==
    /\ fpc = "send"
    /\ Transaction_client(pending) = 1
    /\ Len(tx_receiver[1]) = TX_CHANNEL_SIZE
    /\ apc[1] = "recv"

\* C34: between transactions, whatever transactions were applied (failed
\* ones included), held equals the sum of the amounts stored in disputed.
C34_HeldIsSumOfDisputed ==
    LET RECURSIVE Sum(_)
        Sum(ids) ==
            IF ids = {} THEN 0
            ELSE LET id == CHOOSE i \in ids : TRUE
                 IN  disputed[id] + Sum(ids \ {id})
    IN  balances.held = Sum(DOMAIN disputed)

\* C35: from Balances::new(), after any sequence of the five operations,
\* failing ones included, the stored total equals available + held.
C35_StoredTotalNeverDrifts ==
    balances.total = balances.available + balances.held

\* C36: in every state the in-flight counter equals the number of
\* transactions that send_and_register has registered and that no actor
\* has finished processing: the one being sent, those queued in the
\* inbound channels and those received and not yet processed.  So the
\* counter is at least the number of queued transactions, and a counter of
\* zero after the end of the input means that every channel is empty.
C36_CounterCountsInFlight ==
    LET RECURSIVE InFlight(_)
        InFlight(cs) ==
            IF cs = {} THEN 0
            ELSE LET c == CHOOSE d \in cs : TRUE
                 IN  Len(tx_receiver[c])
                     + (IF apc[c] = "process" THEN 1 ELSE 0)
                     + InFlight(cs \ {c})
        RECURSIVE Queued(_)
        Queued(cs) ==
            IF cs = {} THEN 0
            ELSE LET c == CHOOSE d \in cs : TRUE
                 IN  Len(tx_receiver[c]) + Queued(cs \ {c})
    IN  /\ active_transactions
             = (IF fpc = "send" THEN 1 ELSE 0) + InFlight(Clients)
        /\ active_transactions >= Queued(Clients)
        /\ (fpc \in {"drain", "drop", "results", "done"} /\ active_transactions = 0)
           => \A c \in Clients : tx_receiver[c] = <<>>

\* C36 witness: the counter is 3 while one transaction is being sent, one
\* is queued and one is being processed.
C36_Witness ==
    /\ active_transactions = 3
    /\ fpc = "send"
    /\ \E c \in Clients : Len(tx_receiver[c]) = 1
    /\ \E c \in Clients : apc[c] = "process"

\* C37: an actor that has received a transaction finishes it with exactly
\* one decrement of the in-flight counter, whether the transaction was
\* applied, returned an error or was dropped because the account is
\* locked, and the counter is decremented in no other step; so, under fair
\* scheduling, the wait for the counter that follows the end of the input
\* always completes.
C37_EveryReceivedEventIsCountedDown ==
    /\ [][\A c \in Clients :
             (apc[c] = "process" /\ apc'[c] # "process")
             => /\ active_transactions' = active_transactions - 1
                /\ applied'[c] = Append(applied[c], received[c])
                /\ apc'[c] = "recv"]_vars
    /\ [][active_transactions' < active_transactions
          => \E c \in Clients : apc[c] = "process" /\ apc'[c] = "recv"]_vars
    /\ \A c \in Clients : (apc[c] = "process") ~> (apc[c] = "recv")
    /\ (fpc = "drain") ~> (fpc = "drop" /\ active_transactions = 0)

\* C37 witness: the wait has completed although the actor of client 1
\* dropped a transaction of its locked account, after a run in which it
\* had applied the deposit, the dispute and the chargeback.
C37_Witness ==
    /\ fpc = "drop"
    /\ active_transactions = 0
    /\ Len(applied[1]) = 4
    /\ processors[1].locked
    /\ Replay(SubSeq(applied[1], 1, 3)).locked

\* C38: a Deposit whose insertion into the deposit index is rejected as a
\* duplicate leaves the index as it was, so that a Dispute of the id that
\* follows holds the amount the index had before the rejected insertion.
C38_RejectedInsertKeepsIndex ==
    (/\ tx.kind = "Deposit"
     /\ ~prev.locked
     /\ tx_process_result = "DuplicatedTransaction")
    => /\ db = prev.db
       /\ LET d == crank(Self, Dispute(Client, tx.tx))
          IN  (~contains_key(disputed, tx.tx) /\ d.res = "NoAction")
              => /\ contains_key(d.p.disputed, tx.tx)
                 /\ d.p.disputed[tx.tx] = prev.db[tx.tx]
                 /\ d.p.balances.held = balances.held + prev.db[tx.tx]

\* C39: funds conservation, one transaction at a time: available + held
\* grows by the amount of a deposit that was applied successfully, falls by
\* the amount of a withdrawal that was applied successfully and by the
\* amount of a successful chargeback, and is left as it was by every failed
\* or ignored transaction; from the empty account this makes available +
\* held the sum of the successful deposits minus the successful
\* withdrawals and chargebacks after every transaction.
C39_FundsConservation ==
    LET funds(b) == b.available + b.held
        ok == ~prev.locked /\ tx_process_result \in OkOutcomes
    IN  funds(balances) - funds(prev.balances)
        = CASE ok /\ tx.kind = "Deposit" -> tx.amount
            [] ok /\ tx.kind = "Withdrawal" -> 0 - tx.amount
            [] ok /\ tx.kind = "Chargeback" /\ tx_process_result = "LockAccount"
                 -> 0 - prev.disputed[tx.tx]
            [] OTHER -> 0

====
